---------------------------- MODULE Spec2Model ----------------------------
(***************************************************************************)
(* The `compound` command of genmod (genmod/commands/score_compounds.py):  *)
(* a coordinator that scans the header, registers the CorrectedRankScore   *)
(* field, starts N CompoundScorer workers and one VariantPrinter sink,     *)
(* feeds batches through a bounded JoinableQueue, shuts the pipeline down  *)
(* with N stop signs + join + one terminal marker, then sorts the scratch  *)
(* file and prints header and variants.                                    *)
(*                                                                         *)
(* The coordinator is score_compounds.py itself.  CompoundScorer,          *)
(* VariantPrinter, get_batches, sort_variants, add_metadata and the        *)
(* printers live in other files of the package; they are modelled from     *)
(* their documented contracts.                                             *)
(***************************************************************************)
EXTENDS Integers, Sequences, FiniteSets, TLC

\* ------------------------------------------------------------- bounds
MaxWorkers == 2      \* largest worker count (--processes) explored
MaxRecords == 2      \* largest number of variant lines in the input
MaxSize    == 1      \* capacity of the batch queue (maxsize=1000 in the code, scaled)

\* ------------------------------------------------------------- values
\* What travels on the two queues: None (the stop sign, the terminal marker) or a
\* sequence of lines (a batch, a unit of results).
None == [none |-> TRUE, lines |-> <<>>]

Item(lines) == [none |-> FALSE, lines |-> lines]

\* The sort keys (genomic coordinates) of well-formed lines.  Two of them give
\* every case there is: consecutive lines in one region or not, input in and out
\* of key order, equal keys in different batches.
LineKeys == {1, 2}

\* A variant line: its sort key and what the collaborators make of it.  A
\* malformed line has no coordinate that can be parsed: its key is 0.
MalformedLine == [t |-> "variant", key |-> 0, kind |-> "malformed"]

VariantLines == [t : {"variant"}, key : LineKeys, kind : {"ok", "unscorable"}]
                  \cup {MalformedLine}

MetaFileformat == [t |-> "meta", id |-> "fileformat"]
MetaCRS        == [t |-> "meta", id |-> "CorrectedRankScore"]
HeaderLine     == [t |-> "header"]

\* The preambles explored: none, a plain one, one that already declares the field.
Preambles == { <<>>, <<MetaFileformat, HeaderLine>>, <<MetaCRS, HeaderLine>> }

SeqsUpTo(S, n) == UNION { [1..k -> S] : k \in 0..n }

\* Every preamble with at most one variant line, and the plain preamble with
\* every sequence of variant lines.
Inputs == { p \o d : p \in Preambles, d \in SeqsUpTo(VariantLines, 1) }
            \cup { <<MetaFileformat, HeaderLine>> \o d : d \in SeqsUpTo(VariantLines, MaxRecords) }

\* line.startswith('#') and line.startswith('##')
StartsWithHash(line)  == line.t \in {"meta", "header"}
StartsWithHash2(line) == line.t = "meta"


\* ------------------------------------------------- header collaborator
\* HeaderParser(): no metadata, no header line seen.
EmptyHead == [info |-> <<>>, header |-> FALSE]

\* The structured metadata is a mapping from key to definition, kept in
\* declaration order: registering a key that is present replaces its definition.
Register(h, id, def) ==
  IF \E k \in 1..Len(h.info) : h.info[k].id = id
  THEN [h EXCEPT !.info = [k \in 1..Len(h.info) |->
                             IF h.info[k].id = id THEN [id |-> id, def |-> def]
                                                  ELSE h.info[k]]]
  ELSE [h EXCEPT !.info = Append(h.info, [id |-> id, def |-> def])]

parse_meta_data(h, line) == Register(h, line.id, "file")

parse_header_line(h, line) == [h EXCEPT !.header = TRUE]

add_metadata(h) == Register(h, "CorrectedRankScore", "Integer,1")

\* How many times the header declares CorrectedRankScore.
CRSCount(h) == Cardinality({ k \in 1..Len(h.info) : h.info[k].id = "CorrectedRankScore" })

\* ------------------------------------------------ scoring collaborator
\* A record of the results queue and of the scratch file.
Scored(line) == [key |-> line.key, res |-> "scored"]
Failed(line) == [key |-> line.key, res |-> "failed"]
Error(line)  == [key |-> line.key, res |-> "error"]

\* The scoring function is pure: a batch scores unless one of its records cannot
\* be scored, and then the unit is the explicit failure payload, record by record.
Scorable(batch) == \A k \in 1..Len(batch) : batch[k].kind = "ok"

Score(batch) ==
  IF Scorable(batch) THEN [k \in 1..Len(batch) |-> Scored(batch[k])]
                     ELSE [k \in 1..Len(batch) |-> Failed(batch[k])]

\* --------------------------------------------------- sort collaborator
\* sort_variants(mode='chromosome'): by key, ties by the content of the line.
ResRank(r) == CASE r.res = "error" -> 0 [] r.res = "failed" -> 1 [] OTHER -> 2

LineLeq(a, b) == \/ a.key < b.key
                 \/ a.key = b.key /\ ResRank(a) <= ResRank(b)

Insert(r, s) ==
  LET n == Cardinality({ k \in 1..Len(s) : LineLeq(s[k], r) })
  IN  SubSeq(s, 1, n) \o <<r>> \o SubSeq(s, n + 1, Len(s))

RECURSIVE sort_variants(_)
sort_variants(s) ==
  IF s = <<>> THEN <<>> ELSE Insert(s[Len(s)], sort_variants(SubSeq(s, 1, Len(s) - 1)))


\* ---------------------------------------------------------------- state
VARIABLES
  variant_file,    \* the lines of the input stream
  num_scorers,     \* --processes, as given by the caller
  pc,              \* the coordinator's position in compound()
  pos,             \* the stream position: lines of variant_file consumed
  head,            \* the HeaderParser
  variant_queue,   \* JoinableQueue(maxsize): items put and not yet got
  unfinished,      \* JoinableQueue: items put and not yet task_done
  results,         \* Manager().Queue(): units put and not yet got
  scorer,          \* each CompoundScorer process's state
  task,            \* the batch each CompoundScorer holds
  printer,         \* the VariantPrinter process's state
  i,               \* the index of the coordinator's current for-loop
  batch,           \* get_batches: the batch under construction
  temp_file,       \* the scratch file: "none", "exists" or "removed"
  scratch,         \* the lines of the scratch file
  out,             \* what was handed to print_headers / print_variant, in order
  hist             \* instrumentation: counts of what has happened so far

vars == << variant_file, num_scorers, pc, pos, head, variant_queue, unfinished,
           results, scorer, task, printer, i, batch, temp_file, scratch, out, hist >>

Workers == 1..MaxWorkers

\* range(num_scorers)
Range(n) == 1..n

HistInit == [ batches    |-> 0,      \* batches put on the batch queue
              stops      |-> 0,      \* stop signs put on the batch queue
              acks       |-> 0,      \* task_done calls
              acksAtJoin |-> -1,     \* acks when variant_queue.join() returned
              units      |-> 0,      \* units put on the results queue
              lines      |-> 0,      \* records in those units
              terminals  |-> 0,      \* terminal markers put on the results queue
              late       |-> 0,      \* units put after the terminal marker
              mutations  |-> 0,      \* add_metadata calls
              sorted     |-> FALSE,  \* sort_variants has returned
              headers    |-> 0,      \* print_headers calls
              created    |-> 0,      \* scratch files created
              gotStop    |-> [w \in Workers |-> 0],  \* stop signs each worker got
              gotAfter   |-> 0,      \* batches got by a worker after its stop sign
              putAfter   |-> 0,      \* batches put after the first stop sign
              wrote      |-> <<>>,   \* the records the sink appended, in order
              rmFailed   |-> FALSE,  \* os.remove raised
              batchGets  |-> 0,      \* batches got by workers
              workerUnits |-> 0,     \* units put by workers
              batchAcks  |-> 0,      \* task_done calls for batches
              fed        |-> <<>> ]  \* the lines get_batches put in a batch or an error report

Init ==
  /\ variant_file \in Inputs
  /\ num_scorers \in -1..MaxWorkers
  /\ pc = "scan_header"
  /\ pos = 0
  /\ head = EmptyHead
  /\ variant_queue = <<>>
  /\ unfinished = 0
  /\ results = <<>>
  /\ scorer = [w \in Workers |-> "none"]
  /\ task = [w \in Workers |-> <<>>]
  /\ printer = "none"
  /\ i = 0
  /\ batch = <<>>
  /\ temp_file = "none"
  /\ scratch = <<>>
  /\ out = <<>>
  /\ hist = HistInit


\* ------------------------------------------------- the queues (stdlib)
\* (mutant) a queue built without maxsize: put never blocks.
CanPutUnbounded == TRUE

\* JoinableQueue.put: blocks while maxsize items are waiting; counts a task.
CanPut == Len(variant_queue) < MaxSize

\* (mutant) join taken for "the queue is empty": items got but not yet done are missed.
JoinWhenEmpty == variant_queue = <<>>

\* (mutant) join that does not wait at all.
JoinNoWait == TRUE

\* JoinableQueue.join: blocks until every item put has been task_done.
JoinReturns == unfinished = 0

\* Manager().Queue().put of a unit of records: never blocks.  h is the
\* instrumentation as the caller leaves it.
ResultsPut(unit, h) ==
  /\ results' = Append(results, Item(unit))
  /\ hist' = [h EXCEPT !.units = @ + 1,
                       !.lines = @ + Len(unit),
                       !.late  = @ + (IF hist.terminals > 0 THEN 1 ELSE 0)]

\* ------------------------------------------------------ the coordinator
\* for line in variant_file: ... else: break
ScanHeader ==
  /\ pc = "scan_header"
  /\ IF pos < Len(variant_file)
     THEN LET line == variant_file[pos + 1] IN
          /\ pos' = pos + 1
          /\ IF StartsWithHash(line)
             THEN /\ head' = IF StartsWithHash2(line) THEN parse_meta_data(head, line)
                                                     ELSE parse_header_line(head, line)
                  /\ pc' = pc
             ELSE /\ pc' = "seek"
                  /\ head' = head
     ELSE /\ pc' = "seek"
          /\ UNCHANGED << pos, head >>
  /\ UNCHANGED << variant_file, num_scorers, variant_queue, unfinished, results,
                  scorer, task, printer, i, batch, temp_file, scratch, out, hist >>

\* (mutant) the stream is not rewound after the header scan.
SeekForgotten ==
  /\ pc = "seek"
  /\ pc' = "add_metadata"
  /\ UNCHANGED << variant_file, num_scorers, pos, head, variant_queue, unfinished, results,
                  scorer, task, printer, i, batch, temp_file, scratch, out, hist >>

\* variant_file.seek(0)
Seek ==
  /\ pc = "seek"
  /\ pos' = 0
  /\ pc' = "add_metadata"
  /\ UNCHANGED << variant_file, num_scorers, head, variant_queue, unfinished, results,
                  scorer, task, printer, i, batch, temp_file, scratch, out, hist >>

\* The stream cannot be rewound (a pipe on standard input): seek raises and the
\* exception leaves compound().
SeekFails ==
  /\ pc = "seek"
  /\ pc' = "failed"
  /\ UNCHANGED << variant_file, num_scorers, pos, head, variant_queue, unfinished, results,
                  scorer, task, printer, i, batch, temp_file, scratch, out, hist >>

\* Something of the pipeline is already running or queued.
Processing ==
  \/ \E w \in Workers : scorer[w] \notin {"none", "created"}
  \/ printer # "none"
  \/ hist.batches + hist.stops + hist.units > 0

\* (mutant) the field is never registered.
AddMetadataForgotten ==
  /\ pc = "add_metadata"
  /\ pc' = "temp_file"
  /\ UNCHANGED << variant_file, num_scorers, pos, head, variant_queue, unfinished, results,
                  scorer, task, printer, i, batch, temp_file, scratch, out, hist >>

\* add_metadata(head, 'info', 'CorrectedRankScore', ...)
AddMetadata ==
  /\ pc = "add_metadata"
  /\ head' = add_metadata(head)
  /\ hist' = [hist EXCEPT !.mutations = @ + 1]
  /\ pc' = "temp_file"
  /\ UNCHANGED << variant_file, num_scorers, pos, variant_queue, unfinished, results,
                  scorer, task, printer, i, batch, temp_file, scratch, out >>

\* (mutant) the scratch file is not created before the processes are.
CreateTempFileLate ==
  /\ pc = "temp_file"
  /\ pc' = "create_workers"
  /\ UNCHANGED << variant_file, num_scorers, pos, head, variant_queue, unfinished, results,
                  scorer, task, printer, i, batch, temp_file, scratch, out, hist >>

\* temp_file = NamedTemporaryFile(delete=False); temp_file.close()
CreateTempFile ==
  /\ pc = "temp_file"
  /\ temp_file' = "exists"
  /\ scratch' = <<>>
  /\ hist' = [hist EXCEPT !.created = @ + 1]
  /\ pc' = "create_workers"
  /\ UNCHANGED << variant_file, num_scorers, pos, head, variant_queue, unfinished,
                  results, scorer, task, printer, i, batch, out >>

\* NamedTemporaryFile raises: the exception leaves compound().
CreateTempFileFails ==
  /\ pc = "temp_file"
  /\ pc' = "failed"
  /\ UNCHANGED << variant_file, num_scorers, pos, head, variant_queue, unfinished,
                  results, scorer, task, printer, i, batch, temp_file, scratch, out, hist >>

\* compound_scorers = [CompoundScorer(...) for i in range(num_scorers)]
CreateWorkers ==
  /\ pc = "create_workers"
  /\ scorer' = [w \in Workers |-> IF w \in Range(num_scorers) THEN "created" ELSE "none"]
  /\ i' = 0
  /\ pc' = "start_workers"
  /\ UNCHANGED << variant_file, num_scorers, pos, head, variant_queue, unfinished,
                  results, task, printer, batch, temp_file, scratch, out, hist >>

\* for worker in compound_scorers: worker.start()
StartWorkers ==
  /\ pc = "start_workers"
  /\ IF \E w \in Workers : w = i + 1 /\ scorer[w] = "created"
     THEN /\ scorer' = [scorer EXCEPT ![i + 1] = "idle"]
          /\ i' = i + 1
          /\ pc' = pc
     ELSE /\ pc' = "start_printer"
          /\ UNCHANGED << scorer, i >>
  /\ UNCHANGED << variant_file, num_scorers, pos, head, variant_queue, unfinished,
                  results, task, printer, batch, temp_file, scratch, out, hist >>

\* (mutant) the sink is not started before the producer runs.
StartPrinterLate ==
  /\ pc = "start_printer"
  /\ pc' = "get_batches"
  /\ UNCHANGED << variant_file, num_scorers, pos, head, variant_queue, unfinished, results,
                  scorer, task, printer, i, batch, temp_file, scratch, out, hist >>

\* variant_printer = VariantPrinter(...); variant_printer.start()
StartPrinter ==
  /\ pc = "start_printer"
  /\ printer' = "running"
  /\ pc' = "get_batches"
  /\ UNCHANGED << variant_file, num_scorers, pos, head, variant_queue, unfinished,
                  results, scorer, task, i, batch, temp_file, scratch, out, hist >>


\* ------------------------------------------------- batching collaborator
\* get_batches(variants, batch_queue, header, ..., results_queue): header lines
\* are skipped, a malformed line is reported on the results queue, and the
\* consecutive records of one region (here: of one key) make one batch.
SameRegion(b, line) == IF b = <<>> THEN TRUE ELSE b[1].key = line.key

PutBatch(b) ==
  /\ CanPut
  /\ variant_queue' = Append(variant_queue, Item(b))
  /\ unfinished' = unfinished + 1

GetBatchesRead ==
  /\ pc = "get_batches"
  /\ pos < Len(variant_file)
  /\ LET line == variant_file[pos + 1] IN
     \/ /\ StartsWithHash(line)
        /\ UNCHANGED << variant_queue, unfinished, results, batch, hist >>
     \/ /\ ~StartsWithHash(line)
        /\ line.kind = "malformed"
        /\ ResultsPut(<< Error(line) >>, [hist EXCEPT !.fed = Append(@, line)])
        /\ UNCHANGED << variant_queue, unfinished, batch >>
     \/ /\ ~StartsWithHash(line)
        /\ line.kind # "malformed"
        /\ SameRegion(batch, line)
        /\ batch' = Append(batch, line)
        /\ UNCHANGED << variant_queue, unfinished, results, hist >>
     \/ /\ ~StartsWithHash(line)
        /\ line.kind # "malformed"
        /\ ~SameRegion(batch, line)
        /\ PutBatch(batch)
        /\ batch' = << line >>
        /\ hist' = [hist EXCEPT !.batches = @ + 1,
                                !.fed = @ \o batch,
                                !.putAfter = @ + (IF hist.stops > 0 THEN 1 ELSE 0)]
        /\ UNCHANGED results
  /\ pos' = pos + 1
  /\ UNCHANGED << variant_file, num_scorers, pc, head, scorer, task, printer, i,
                  temp_file, scratch, out >>

\* The stream is exhausted: the last batch is put and get_batches returns.
GetBatchesEnd ==
  /\ pc = "get_batches"
  /\ pos = Len(variant_file)
  /\ IF batch # <<>>
     THEN /\ PutBatch(batch)
          /\ batch' = <<>>
          /\ hist' = [hist EXCEPT !.batches = @ + 1,
                                  !.fed = @ \o batch,
                                  !.putAfter = @ + (IF hist.stops > 0 THEN 1 ELSE 0)]
          /\ UNCHANGED << pc, i >>
     ELSE /\ pc' = "put_stops"
          /\ i' = 0
          /\ UNCHANGED << variant_queue, unfinished, batch, hist >>
  /\ UNCHANGED << variant_file, num_scorers, pos, head, results, scorer, task, printer,
                  temp_file, scratch, out >>

\* (mutant) the stop signs are put twice over: range(2 * num_scorers).
PutStopsTwice ==
  /\ pc = "put_stops"
  /\ IF i < 2 * num_scorers
     THEN /\ CanPut
          /\ variant_queue' = Append(variant_queue, None)
          /\ unfinished' = unfinished + 1
          /\ hist' = [hist EXCEPT !.stops = @ + 1]
          /\ i' = i + 1
          /\ pc' = pc
     ELSE /\ pc' = "join"
          /\ UNCHANGED << variant_queue, unfinished, hist, i >>
  /\ UNCHANGED << variant_file, num_scorers, pos, head, results, scorer, task, printer,
                  batch, temp_file, scratch, out >>

\* (mutant) one stop sign too few: range(num_scorers - 1).
PutStopsOneShort ==
  /\ pc = "put_stops"
  /\ IF i < num_scorers - 1
     THEN /\ CanPut
          /\ variant_queue' = Append(variant_queue, None)
          /\ unfinished' = unfinished + 1
          /\ hist' = [hist EXCEPT !.stops = @ + 1]
          /\ i' = i + 1
          /\ pc' = pc
     ELSE /\ pc' = "join"
          /\ UNCHANGED << variant_queue, unfinished, hist, i >>
  /\ UNCHANGED << variant_file, num_scorers, pos, head, results, scorer, task, printer,
                  batch, temp_file, scratch, out >>

\* for i in range(num_scorers): variant_queue.put(None)
PutStops ==
  /\ pc = "put_stops"
  /\ IF i < num_scorers
     THEN /\ CanPut
          /\ variant_queue' = Append(variant_queue, None)
          /\ unfinished' = unfinished + 1
          /\ hist' = [hist EXCEPT !.stops = @ + 1]
          /\ i' = i + 1
          /\ pc' = pc
     ELSE /\ pc' = "join"
          /\ UNCHANGED << variant_queue, unfinished, hist, i >>
  /\ UNCHANGED << variant_file, num_scorers, pos, head, results, scorer, task, printer,
                  batch, temp_file, scratch, out >>

\* variant_queue.join()
Join ==
  /\ pc = "join"
  /\ JoinReturns
  /\ hist' = [hist EXCEPT !.acksAtJoin = hist.acks]
  /\ pc' = "results_put"
  /\ UNCHANGED << variant_file, num_scorers, pos, head, variant_queue, unfinished,
                  results, scorer, task, printer, i, batch, temp_file, scratch, out >>

\* results.put(None)
ResultsPutNone ==
  /\ pc = "results_put"
  /\ results' = Append(results, None)
  /\ hist' = [hist EXCEPT !.terminals = @ + 1]
  /\ pc' = "printer_join"
  /\ UNCHANGED << variant_file, num_scorers, pos, head, variant_queue, unfinished,
                  scorer, task, printer, i, batch, temp_file, scratch, out >>

\* (mutant) the coordinator does not wait for the sink before it sorts.
PrinterJoinNoWait ==
  /\ pc = "printer_join"
  /\ pc' = "sort"
  /\ UNCHANGED << variant_file, num_scorers, pos, head, variant_queue, unfinished,
                  results, scorer, task, printer, i, batch, temp_file, scratch, out, hist >>

\* variant_printer.join(): returns once the process has ended, however it ended.
PrinterJoin ==
  /\ pc = "printer_join"
  /\ printer \in {"exited", "crashed"}
  /\ pc' = "sort"
  /\ UNCHANGED << variant_file, num_scorers, pos, head, variant_queue, unfinished,
                  results, scorer, task, printer, i, batch, temp_file, scratch, out, hist >>

\* (mutant) the scratch file is printed as the sink left it.
SortVariantsForgotten ==
  /\ pc = "sort"
  /\ pc' = "print_headers"
  /\ UNCHANGED << variant_file, num_scorers, pos, head, variant_queue, unfinished,
                  results, scorer, task, printer, i, batch, temp_file, scratch, out, hist >>

\* sort_variants(infile=temp_file.name, mode='chromosome')
SortVariants ==
  /\ pc = "sort"
  /\ scratch' = sort_variants(scratch)
  /\ hist' = [hist EXCEPT !.sorted = TRUE]
  /\ pc' = "print_headers"
  /\ UNCHANGED << variant_file, num_scorers, pos, head, variant_queue, unfinished,
                  results, scorer, task, printer, i, batch, temp_file, out >>

\* print_headers(head=head, outfile=outfile, silent=silent)
PrintHeaders ==
  /\ pc = "print_headers"
  /\ out' = Append(out, [t |-> "header", head |-> head])
  /\ hist' = [hist EXCEPT !.headers = @ + 1]
  /\ i' = 0
  /\ pc' = "print_variants"
  /\ UNCHANGED << variant_file, num_scorers, pos, head, variant_queue, unfinished,
                  results, scorer, task, printer, batch, temp_file, scratch >>

\* with open(temp_file.name) as f: for line in f: print_variant(line, ...)
PrintVariants ==
  /\ pc = "print_variants"
  /\ IF i < Len(scratch)
     THEN /\ out' = Append(out, [t |-> "variant", line |-> scratch[i + 1]])
          /\ i' = i + 1
          /\ pc' = pc
     ELSE /\ pc' = "remove"
          /\ UNCHANGED << out, i >>
  /\ UNCHANGED << variant_file, num_scorers, pos, head, variant_queue, unfinished,
                  results, scorer, task, printer, batch, temp_file, scratch, hist >>

\* os.remove(temp_file.name)
Remove ==
  /\ pc = "remove"
  /\ temp_file' = "removed"
  /\ pc' = "finish"
  /\ UNCHANGED << variant_file, num_scorers, pos, head, variant_queue, unfinished,
                  results, scorer, task, printer, i, batch, scratch, out, hist >>

\* os.remove raises OSError: nothing catches it, the exception leaves compound().
RemoveFails ==
  /\ pc = "remove"
  /\ pc' = "failed"
  /\ hist' = [hist EXCEPT !.rmFailed = TRUE]
  /\ UNCHANGED << variant_file, num_scorers, pos, head, variant_queue, unfinished,
                  results, scorer, task, printer, i, batch, temp_file, scratch, out >>

\* logger.debug("Temp file removed"); logger.info('Time for whole analyis ...'); return
Finish ==
  /\ pc = "finish"
  /\ pc' = "done"
  /\ UNCHANGED << variant_file, num_scorers, pos, head, variant_queue, unfinished,
                  results, scorer, task, printer, i, batch, temp_file, scratch, out, hist >>


\* ------------------------------------------------ CompoundScorer.run()
\* task_queue.get(): a batch to score, or the stop sign.
WorkerGet(w) ==
  /\ scorer[w] = "idle"
  /\ variant_queue # <<>>
  /\ LET item == Head(variant_queue) IN
     /\ variant_queue' = Tail(variant_queue)
     /\ scorer' = [scorer EXCEPT ![w] = IF item.none THEN "stopping" ELSE "scoring"]
     /\ task' = [task EXCEPT ![w] = item.lines]
     /\ hist' = [hist EXCEPT
                   !.gotStop[w] = @ + (IF item.none THEN 1 ELSE 0),
                   !.gotAfter = @ + (IF ~item.none /\ hist.gotStop[w] > 0 THEN 1 ELSE 0),
                   !.batchGets = @ + (IF item.none THEN 0 ELSE 1)]
  /\ UNCHANGED << variant_file, num_scorers, pc, pos, head, unfinished, results, printer,
                  i, batch, temp_file, scratch, out >>

\* The batch is scored and its unit (scores, or the failure payload) is put.
WorkerScore(w) ==
  /\ scorer[w] = "scoring"
  /\ ResultsPut(Score(task[w]), [hist EXCEPT !.workerUnits = @ + 1])
  /\ scorer' = [scorer EXCEPT ![w] = "acking"]
  /\ task' = [task EXCEPT ![w] = <<>>]
  /\ UNCHANGED << variant_file, num_scorers, pc, pos, head, variant_queue, unfinished,
                  printer, i, batch, temp_file, scratch, out >>

\* task_queue.task_done(), for a batch (back to get) or for the stop sign (break).
WorkerTaskDone(w) ==
  /\ scorer[w] \in {"acking", "stopping"}
  /\ unfinished' = unfinished - 1
  /\ hist' = [hist EXCEPT !.acks = @ + 1,
                          !.batchAcks = @ + (IF scorer[w] = "acking" THEN 1 ELSE 0)]
  /\ scorer' = [scorer EXCEPT ![w] = IF scorer[w] = "acking" THEN "idle" ELSE "acked"]
  /\ UNCHANGED << variant_file, num_scorers, pc, pos, head, variant_queue, results, task,
                  printer, i, batch, temp_file, scratch, out >>

\* run() returns and the process ends.
WorkerExit(w) ==
  /\ scorer[w] = "acked"
  /\ scorer' = [scorer EXCEPT ![w] = "exited"]
  /\ UNCHANGED << variant_file, num_scorers, pc, pos, head, variant_queue, unfinished,
                  results, task, printer, i, batch, temp_file, scratch, out, hist >>

\* The process dies holding an item it has not acknowledged.
WorkerCrash(w) ==
  /\ scorer[w] \in {"scoring", "acking", "stopping"}
  /\ scorer' = [scorer EXCEPT ![w] = "crashed"]
  /\ UNCHANGED << variant_file, num_scorers, pc, pos, head, variant_queue, unfinished,
                  results, task, printer, i, batch, temp_file, scratch, out, hist >>

\* ------------------------------------------------- VariantPrinter.run()
\* task_queue.get(): the terminal marker ends the loop, a unit is appended to
\* the scratch file record by record.
PrinterGet ==
  /\ printer = "running"
  /\ results # <<>>
  /\ LET item == Head(results) IN
     /\ results' = Tail(results)
     /\ IF item.none
        THEN /\ printer' = "exited"
             /\ UNCHANGED << scratch, hist >>
        ELSE /\ scratch' = scratch \o item.lines
             /\ hist' = [hist EXCEPT !.wrote = @ \o item.lines]
             /\ printer' = printer
  /\ UNCHANGED << variant_file, num_scorers, pc, pos, head, variant_queue, unfinished,
                  scorer, task, i, batch, temp_file, out >>

\* The process ends with an uncaught exception before it got the terminal marker.
PrinterCrash ==
  /\ printer = "running"
  /\ printer' = "crashed"
  /\ UNCHANGED << variant_file, num_scorers, pc, pos, head, variant_queue, unfinished,
                  results, scorer, task, i, batch, temp_file, scratch, out, hist >>

\* ------------------------------------------------------- specifications
Coordinator ==
  \/ ScanHeader \/ Seek \/ AddMetadata \/ CreateTempFile \/ CreateWorkers
  \/ StartWorkers \/ StartPrinter \/ GetBatchesRead \/ GetBatchesEnd \/ PutStops
  \/ Join \/ ResultsPutNone \/ PrinterJoin \/ SortVariants \/ PrintHeaders
  \/ PrintVariants \/ Remove \/ Finish

Worker(w) == WorkerGet(w) \/ WorkerScore(w) \/ WorkerTaskDone(w) \/ WorkerExit(w)

NextNoFault == Coordinator \/ PrinterGet \/ \E w \in Workers : Worker(w)

\* The stream cannot be rewound, or the file system refuses the scratch file or
\* its removal.
FileErrors == SeekFails \/ CreateTempFileFails \/ RemoveFails

\* A process of the pipeline dies.
Crashes == PrinterCrash \/ \E w \in Workers : WorkerCrash(w)

Next == NextNoFault \/ FileErrors

NextCrash == Next \/ Crashes

\* Every run in which no process dies.
Spec == Init /\ [][Next]_vars

\* Every run, process crashes included.
CrashSpec == Init /\ [][NextCrash]_vars

\* The runs in which nothing fails, under the scheduler's fairness: a process
\* that can take a step is eventually given the processor.
FairSpec ==
  /\ Init
  /\ [][NextNoFault]_vars
  /\ WF_vars(Coordinator)
  /\ WF_vars(PrinterGet)
  /\ \A w \in Workers : WF_vars(Worker(w))


\* =============================================================== claims
\* The workers the coordinator created: range(num_scorers) is empty for N <= 0.
NumWorkers == IF num_scorers > 0 THEN num_scorers ELSE 0

Count(s, x) == Cardinality({ k \in 1..Len(s) : s[k] = x })

SameBag(s, t) == /\ Len(s) = Len(t)
                 /\ \A k \in 1..Len(s) : Count(s, s[k]) = Count(t, s[k])

Keys(s) == [k \in 1..Len(s) |-> s[k].key]

\* The variant lines of the input, in order.
SelectVariants(file) == SelectSeq(file, LAMBDA line : ~StartsWithHash(line))

\* C1: when variant_queue.join() returns, the acknowledgments counted so far equal
\* the batches produced plus the N stop signs: nothing put on the batch queue is
\* still unacknowledged.
C1_JoinAfterAllAcks ==
  hist.acksAtJoin # -1 =>
    /\ hist.acksAtJoin = hist.batches + NumWorkers
    /\ hist.stops = NumWorkers

\* C1 witness: join has returned in a run of two workers and two batches.
C1_Witness == hist.acksAtJoin = 4 /\ hist.batches = 2 /\ num_scorers = 2

\* C2: the one terminal marker is put only after join returned; no unit is put on
\* the results queue after it, so it is the last item of the FIFO; and when the
\* sink has exited every record put on the results queue is in the scratch file.
C2_NoTruncatedOutput ==
  /\ hist.terminals <= 1
  /\ hist.terminals = 1 => hist.acksAtJoin # -1
  /\ hist.late = 0
  /\ \A k \in 1..Len(results) : results[k].none => k = Len(results)
  /\ printer = "exited" => /\ results = <<>>
                           /\ Len(hist.wrote) = hist.lines
                           /\ SameBag(scratch, hist.wrote)

\* C2 witness: the sink has exited after writing the units of a worker and of the
\* producer.
C2_Witness ==
  /\ printer = "exited"
  /\ hist.units = 2
  /\ hist.batches = 1
  /\ Len(scratch) = 2

Terminated ==
  /\ pc = "done"
  /\ pos = Len(variant_file) /\ batch = <<>>
  /\ \A w \in Workers : w \in Range(num_scorers) => scorer[w] = "exited"
  /\ hist.acksAtJoin # -1
  /\ printer = "exited"

C4_Terminates == <>(num_scorers < 1 \/ Terminated)

\* C4 witness: a run of two workers ended.
C4_Witness == Terminated /\ num_scorers = 2 /\ hist.batches = 2

\* C4 witness: a header-only input, no batch at all, ended.
C4_WitnessHeaderOnly == Terminated /\ num_scorers >= 1 /\ hist.batches = 0 /\ hist.units = 0

\* The output as a function of the input alone: the header parsed from the
\* leading header lines plus the registered field, then the records of the
\* batches and of the error reports, sorted.
RECURSIVE ParsedHead(_, _)
ParsedHead(h, lines) ==
  IF lines = <<>> \/ ~StartsWithHash(Head(lines)) THEN h
  ELSE ParsedHead(IF StartsWithHash2(Head(lines)) THEN parse_meta_data(h, Head(lines))
                                                  ELSE parse_header_line(h, Head(lines)),
                  Tail(lines))

RECURSIVE ExpectedRecords(_, _)
ExpectedRecords(lines, b) ==
  IF lines = <<>> THEN Score(b)
  ELSE LET line == Head(lines) IN
       IF StartsWithHash(line) THEN ExpectedRecords(Tail(lines), b)
       ELSE IF line.kind = "malformed" THEN << Error(line) >> \o ExpectedRecords(Tail(lines), b)
       ELSE IF SameRegion(b, line) THEN ExpectedRecords(Tail(lines), Append(b, line))
       ELSE Score(b) \o ExpectedRecords(Tail(lines), << line >>)

ExpectedOutput(file) ==
  LET recs == sort_variants(ExpectedRecords(file, <<>>))
  IN  << [t |-> "header", head |-> add_metadata(ParsedHead(EmptyHead, file))] >>
        \o [k \in 1..Len(recs) |-> [t |-> "variant", line |-> recs[k]]]

C6_HeaderMutatedOnce ==
  /\ [](hist.mutations <= 1)
  /\ [](Processing => hist.mutations = 1)
  /\ [][hist.mutations = 1 => head' = head]_vars
  /\ [](\A k \in 1..Len(out) : out[k].t = "header" => CRSCount(out[k].head) = 1)

\* C6 witness: the header of an input that did not declare the field has been
\* printed by a run of two workers.
C6_Witness ==
  /\ out # <<>>
  /\ num_scorers = 2
  /\ hist.batches = 2
  /\ CRSCount(ParsedHead(EmptyHead, variant_file)) = 0
  /\ CRSCount(out[1].head) = 1

\* The coordinator is past the loop that prints the scratch file.
Printed == pc \in {"remove", "finish", "done"} \/ (pc = "failed" /\ hist.rmFailed)

\* C7: the output is the header, once and first, then the records of the scratch
\* file in the order of their keys; nothing is printed before sort_variants has
\* returned; and the records printed are, as a multiset, those the sink wrote.
C7_SortedOutput ==
  /\ hist.headers <= 1
  /\ out # <<>> => /\ hist.sorted
                   /\ hist.headers = 1
                   /\ out[1].t = "header"
  /\ \A k \in 2..Len(out) : out[k].t = "variant"
  /\ \A k \in 2..(Len(out) - 1) : out[k].line.key <= out[k + 1].line.key
  /\ Printed => /\ Len(out) = Len(scratch) + 1
                /\ \A k \in 1..Len(scratch) : out[k + 1].line = scratch[k]
                /\ SameBag(scratch, hist.wrote)

\* C7 witness: two records that the sink wrote in descending order of key have
\* been printed.
C7_Witness ==
  /\ Printed
  /\ Len(hist.wrote) = 2
  /\ hist.wrote[1].key > hist.wrote[2].key

\* C8: a sink that crashed before it got the terminal marker never lets the run
\* end in success.
C8_SinkCrashIsFatal == ~(printer = "crashed" /\ pc = "done")

\* C9: a failure of os.remove is not fatal: the statement after it is reached.
C9_RemoveFailureNotFatal == hist.rmFailed => pc \in {"finish", "done"}

\* The coordinator is past the loop that puts the stop signs.
PastPutStops ==
  \/ pc \in {"join", "results_put", "printer_join", "sort", "print_headers", "print_variants"}
  \/ Printed

\* The worker processes that were started.
Started == { w \in Workers : scorer[w] \notin {"none", "created"} }

\* C10: the coordinator puts exactly N stop signs, N the number of workers it
\* started, all after the last batch; a worker gets one stop sign and no batch
\* after it; one terminal marker is put on the results queue.
C10_StopSigns ==
  /\ hist.stops <= NumWorkers
  /\ hist.putAfter = 0
  /\ hist.gotAfter = 0
  /\ \A w \in Workers : hist.gotStop[w] <= 1
  /\ hist.terminals <= 1
  /\ PastPutStops => /\ hist.stops = NumWorkers
                     /\ Cardinality(Started) = NumWorkers
  /\ hist.acksAtJoin # -1 => \A w \in Started : hist.gotStop[w] = 1
  /\ (pc = "done" => hist.terminals = 1)

\* C10 witness: two workers, each with its stop sign, after two batches.
C10_Witness ==
  /\ pc = "done"
  /\ hist.stops = 2
  /\ hist.batches = 2
  /\ \A w \in Workers : hist.gotStop[w] = 1

\* The batches on the batch queue, stop signs left out.
QueuedBatches == Cardinality({ k \in 1..Len(variant_queue) : ~variant_queue[k].none })

\* The workers in state st.
InState(st) == { w \in Workers : scorer[w] = st }

\* C11: every batch put on the batch queue is got by one worker once and yields
\* one unit on the results queue, put before the batch is acknowledged: the
\* acknowledged batches never outnumber the units the workers have put, and when
\* join has returned every batch has been got, answered and acknowledged.
C11_OneUnitPerBatch ==
  /\ hist.batchGets + QueuedBatches = hist.batches
  /\ hist.workerUnits + Cardinality(InState("scoring")) = hist.batchGets
  /\ hist.batchAcks + Cardinality(InState("acking")) = hist.workerUnits
  /\ hist.batchAcks <= hist.workerUnits
  /\ hist.acksAtJoin # -1 => /\ hist.batchGets = hist.batches
                             /\ hist.workerUnits = hist.batches
                             /\ hist.batchAcks = hist.batches

\* C11 witness: join has returned after two workers answered two batches.
C11_Witness ==
  /\ hist.acksAtJoin # -1
  /\ num_scorers = 2
  /\ hist.batches = 2
  /\ hist.workerUnits = 2
  /\ hist.batchAcks = 2

\* C12 as written: when join has returned, and when the terminal marker is put,
\* every worker is in state exited.
C12_AllExitedAtJoin ==
  hist.acksAtJoin # -1 => \A w \in Started : scorer[w] = "exited"

\* C12: when join has returned, and when the terminal marker is put, every worker
\* has acknowledged its stop sign and puts nothing more on the results queue: it
\* has exited or is between the acknowledgment and its exit, and no unit reaches
\* the results queue after the terminal marker.
C12_AllStoppedAtJoin ==
  /\ hist.acksAtJoin # -1 => /\ \A w \in Started : scorer[w] \in {"acked", "exited"}
                             /\ Cardinality(Started) = NumWorkers
  /\ hist.late = 0

\* C12 witness: the terminal marker is on the results queue while a worker that
\* acknowledged its stop sign has not exited yet.
C12_Witness ==
  /\ hist.terminals = 1
  /\ \E w \in Started : scorer[w] = "acked"

\* C13: the batch queue never holds more than its capacity, and while it is full
\* nothing is put on it: the coordinator's put takes effect only after a worker
\* has got an item.
C13_Backpressure ==
  [][ /\ Len(variant_queue') <= MaxSize
      /\ Len(variant_queue) = MaxSize => /\ hist'.batches = hist.batches
                                         /\ hist'.stops = hist.stops ]_vars

\* C13 witness: the queue is full while the coordinator still has a stop sign to put.
C13_Witness ==
  /\ Len(variant_queue) = MaxSize
  /\ pc = "put_stops"
  /\ i < num_scorers

\* The coordinator has seen variant_printer.join() return.
PastPrinterJoin ==
  pc \in {"sort", "print_headers", "print_variants"} \/ Printed

\* The variant lines printed so far.
PrintedVariants == SelectSeq(out, LAMBDA o : o.t = "variant")

\* C14: the scratch file has one user at a time: it is created once; only the
\* sink appends to it, and only before the coordinator has seen the sink end;
\* sort_variants runs after that; printing starts after sort_variants has
\* returned; the file is removed after its last record has been printed.
C14_ScratchExclusive ==
  [][ /\ hist'.created <= 1
      /\ scratch' # scratch =>
            \/ /\ printer = "running" /\ ~PastPrinterJoin /\ temp_file = "exists"
               /\ results # <<>> /\ scratch' = scratch \o Head(results).lines
            \/ /\ pc = "sort" /\ printer # "running" /\ temp_file = "exists"
      /\ PastPrinterJoin' => printer' \in {"exited", "crashed"}
      /\ PrintedVariants' # <<>> => hist'.sorted
      /\ out' # out => temp_file = "exists" /\ hist.sorted
      /\ temp_file' = "removed" => /\ Len(PrintedVariants') = Len(scratch')
                                   /\ hist'.created = 1 ]_vars

\* C14 witness: the file is removed after the sink wrote two records, they were
\* sorted and both were printed.
C14_Witness ==
  /\ temp_file = "removed"
  /\ Len(hist.wrote) = 2
  /\ Len(PrintedVariants) = 2
  /\ printer = "exited"

\* C15: nothing reaches the results queue before the sink is started: no batch
\* is put, no producer error and no worker result exists while it is not; the
\* workers are all started before the sink.
C15_SinkStartedFirst ==
  /\ (hist.batches > 0 \/ hist.units > 0 \/ results # <<>>) => printer # "none"
  /\ printer # "none" => Cardinality(Started) = NumWorkers
  /\ pc = "start_printer" => /\ printer = "none"
                             /\ Cardinality(Started) = NumWorkers

\* C15 witness: a producer error and a worker result have both been put, the
\* sink running.
C15_Witness ==
  /\ hist.workerUnits >= 1
  /\ hist.units > hist.workerUnits
  /\ printer = "running"

\* C16: a run in which a worker died between getting an item and acknowledging
\* it does not come to rest anywhere but in the failed state: when no process
\* can take a step any more, the coordinator has failed; it is not left waiting
\* in variant_queue.join() or in a put, and it has not finished.
C16_WorkerCrashIsFatal ==
  ((\E w \in Workers : scorer[w] = "crashed") /\ ~ENABLED NextCrash) => pc = "failed"

\* C17: a batch that cannot be scored does not end its worker and does not
\* break the join: the worker answers it with a unit like any other batch,
\* acknowledges it, and leaves its loop only on a stop sign; when join has
\* returned every batch, failed ones included, is acknowledged and every worker
\* has got its stop sign.
C17_FailureKeepsWorker ==
  /\ \A w \in Started :
        /\ scorer[w] \in {"idle", "scoring", "acking", "stopping", "acked", "exited"}
        /\ scorer[w] \in {"stopping", "acked", "exited"} => hist.gotStop[w] = 1
        /\ scorer[w] \in {"idle", "scoring", "acking"} => hist.gotStop[w] = 0
  /\ hist.acksAtJoin # -1 => /\ hist.batchAcks = hist.batches
                             /\ hist.workerUnits = hist.batches
                             /\ \A w \in Started : hist.gotStop[w] = 1

\* C17 witness: the only worker answered its first batch with a failure, then
\* scored a second batch, and exited on its stop sign.
C17_Witness ==
  /\ num_scorers = 1
  /\ scorer[1] = "exited"
  /\ hist.batches = 2
  /\ Len(hist.wrote) = 2
  /\ hist.wrote[1].res = "failed"
  /\ hist.wrote[2].res = "scored"
  /\ pc = "done"

\* Nothing of the pipeline exists: no worker, no sink, nothing on or through
\* either queue.
NothingStarted ==
  /\ \A w \in Workers : scorer[w] = "none"
  /\ printer = "none"
  /\ variant_queue = <<>> /\ results = <<>>
  /\ unfinished = 0
  /\ hist.batches = 0 /\ hist.stops = 0 /\ hist.units = 0 /\ hist.terminals = 0

\* C18: the scratch file is created before any process: while it does not
\* exist, and so in a run that ended because it could not be created, there is
\* no worker, no sink and nothing on either queue.
C18_ScratchFileFirst ==
  /\ temp_file = "none" => NothingStarted
  /\ (pc = "failed" /\ hist.created = 0) => NothingStarted

\* C18 witness: NamedTemporaryFile raised, after add_metadata, with two workers
\* asked for.
C18_Witness ==
  /\ pc = "failed"
  /\ hist.mutations = 1
  /\ temp_file = "none"
  /\ num_scorers = 2

\* get_batches has returned.
PastGetBatches == pc = "put_stops" \/ PastPutStops

\* C19: the header scan loses no record: it reads up to and including the first
\* line that is not a header line, the stream is at its start again before
\* get_batches runs, and when get_batches has returned every variant line of the
\* input, the first one included, has been put in one batch or one error report.
C19_NoRecordLost ==
  /\ (pc = "seek" /\ SelectVariants(variant_file) # <<>>) =>
        /\ pos >= 1
        /\ variant_file[pos] = SelectVariants(variant_file)[1]
        /\ \A k \in 1..(pos - 1) : StartsWithHash(variant_file[k])
  /\ pc \in {"add_metadata", "temp_file", "create_workers", "start_workers",
              "start_printer"} => pos = 0
  /\ SameBag(hist.fed \o batch, SelectVariants(SubSeq(variant_file, 1, pos)))
        \/ pc \in {"scan_header", "seek"} \/ (pc = "failed" /\ hist.created = 0)
  /\ PastGetBatches => SameBag(hist.fed, SelectVariants(variant_file))

\* C19 witness: the input has header lines, then a variant line, and get_batches
\* has returned with that line put.
C19_Witness ==
  /\ PastGetBatches
  /\ Len(variant_file) = 3
  /\ StartsWithHash(variant_file[1])
  /\ hist.fed = << variant_file[3] >>

\* The input holds a variant line that goes into a batch.
HasBatch == \E k \in 1..Len(variant_file) :
              ~StartsWithHash(variant_file[k]) /\ variant_file[k].kind # "malformed"

\* C20: the worker count is not checked.  With N <= 0 no worker is created and
\* no stop sign is put; if the input yields a batch the coordinator never gets
\* past variant_queue.join() and the terminal marker is never put; a run on such
\* an input that reaches sort_variants has N >= 1.
C20_NoWorkersBlocks ==
  /\ num_scorers <= 0 => /\ \A w \in Workers : scorer[w] = "none"
                         /\ hist.stops = 0
  /\ (num_scorers <= 0 /\ HasBatch) =>
        /\ hist.acksAtJoin = -1
        /\ hist.terminals = 0
        /\ pc \notin {"results_put", "printer_join"}
        /\ ~PastPrinterJoin
  /\ (HasBatch /\ PastPrinterJoin) => num_scorers >= 1

\* C20 witness: no worker, one batch put, the coordinator in join and no
\* process able to take a step.
C20_Witness ==
  /\ num_scorers = 0
  /\ pc = "join"
  /\ hist.batches = 1
  /\ unfinished = 1
  /\ ~ENABLED Next

\* C20 witness, full queue: no worker, the coordinator in get_batches with a
\* batch to put and the queue full, no process able to take a step.
C20_WitnessFullQueue ==
  /\ num_scorers <= 0
  /\ pc = "get_batches"
  /\ Len(variant_queue) = MaxSize
  /\ ~ENABLED Next

=============================================================================
